---- MODULE Spec2Model ----
(***************************************************************************)
(* Model of the AI code review bot (src/src/reviewBot.ts): one run of      *)
(* main(), from the construction of AICodeReviewBot to the process exit.   *)
(* Strings are TLA+ strings; the JavaScript string functions the code      *)
(* calls (regex tests, split, parseInt, trim, toLowerCase, includes,       *)
(* slice) are operators computed character by character.                   *)
(***************************************************************************)
EXTENDS Integers, Sequences, FiniteSets, TLC

(***************************************************************************)
(* Bounds of the model.                                                    *)
(***************************************************************************)
\* largest number of files a change set carries
MaxFiles == 2
\* number of error findings in the largest analyzer result of one file
BigLint == 9

(***************************************************************************)
(* JavaScript values and string functions.                                 *)
(***************************************************************************)
\* undefined / null (an absent environment variable, patch, ruleId, content):
\* a value different from every string the model uses
Undefined == "<undefined>"
\* a JavaScript number: an integer, or the NaN parseInt returns on input
\* without leading digits
NaN == [nan |-> TRUE, val |-> 0]

Num(n) == [nan |-> FALSE, val |-> n]

CharAt(s, i) == SubSeq(s, i, i)

Digits == {"0", "1", "2", "3", "4", "5", "6", "7", "8", "9"}

IsDigit(c) == c \in Digits

DigitVal(c) ==
  CASE c = "0" -> 0 [] c = "1" -> 1 [] c = "2" -> 2 [] c = "3" -> 3
    [] c = "4" -> 4 [] c = "5" -> 5 [] c = "6" -> 6 [] c = "7" -> 7
    [] c = "8" -> 8 [] c = "9" -> 9

\* s.endsWith(suf)
EndsWith(s, suf) ==
  /\ Len(suf) <= Len(s)
  /\ SubSeq(s, Len(s) - Len(suf) + 1, Len(s)) = suf

\* s.includes(sub)
Includes(s, sub) ==
  \E i \in 1..(Len(s) - Len(sub) + 1) : SubSeq(s, i, i + Len(sub) - 1) = sub

\* the end of the longest run of digits of s that starts at position i
\* (i - 1 when s has no digit at i)
RECURSIVE DigitsEnd(_, _)
DigitsEnd(s, i) ==
  IF i <= Len(s) /\ IsDigit(CharAt(s, i)) THEN DigitsEnd(s, i + 1) ELSE i - 1

\* the value of a string of decimal digits
RECURSIVE DecimalValue(_)
DecimalValue(s) ==
  IF Len(s) = 0 THEN 0
  ELSE 10 * DecimalValue(SubSeq(s, 1, Len(s) - 1)) + DigitVal(CharAt(s, Len(s)))

Whitespace == {" ", "\n", "\t"}

\* the first position of s at or after i that holds no whitespace
RECURSIVE SkipSpace(_, _)
SkipSpace(s, i) ==
  IF i <= Len(s) /\ CharAt(s, i) \in Whitespace THEN SkipSpace(s, i + 1) ELSE i

\* parseInt(s): leading whitespace, an optional sign, the longest run of
\* digits; NaN when there is no digit
ParseInt(s) ==
  LET p == SkipSpace(s, 1)
      neg == p <= Len(s) /\ CharAt(s, p) = "-"
      q == IF p <= Len(s) /\ CharAt(s, p) \in {"-", "+"} THEN p + 1 ELSE p
      e == DigitsEnd(s, q)
  IN  IF e < q THEN NaN
      ELSE IF neg THEN Num(0 - DecimalValue(SubSeq(s, q, e)))
      ELSE Num(DecimalValue(SubSeq(s, q, e)))

\* the last position of s at or before i that holds no whitespace
RECURSIVE SkipSpaceBack(_, _)
SkipSpaceBack(s, i) ==
  IF i >= 1 /\ CharAt(s, i) \in Whitespace THEN SkipSpaceBack(s, i - 1) ELSE i

\* s.trim()
Trim(s) == SubSeq(s, SkipSpace(s, 1), SkipSpaceBack(s, Len(s)))

LowerOf(c) ==
  CASE c = "A" -> "a" [] c = "B" -> "b" [] c = "C" -> "c" [] c = "D" -> "d"
    [] c = "E" -> "e" [] c = "F" -> "f" [] c = "G" -> "g" [] c = "H" -> "h"
    [] c = "I" -> "i" [] c = "J" -> "j" [] c = "K" -> "k" [] c = "L" -> "l"
    [] c = "M" -> "m" [] c = "N" -> "n" [] c = "O" -> "o" [] c = "P" -> "p"
    [] c = "Q" -> "q" [] c = "R" -> "r" [] c = "S" -> "s" [] c = "T" -> "t"
    [] c = "U" -> "u" [] c = "V" -> "v" [] c = "W" -> "w" [] c = "X" -> "x"
    [] c = "Y" -> "y" [] c = "Z" -> "z" [] OTHER -> c

\* s.toLowerCase()
RECURSIVE ToLowerCase(_)
ToLowerCase(s) ==
  IF Len(s) = 0 THEN ""
  ELSE ToLowerCase(SubSeq(s, 1, Len(s) - 1)) \o LowerOf(CharAt(s, Len(s)))

\* the position of the first sep of s at or after i (Len(s) + 1 if none)
RECURSIVE IndexOf(_, _, _)
IndexOf(s, sep, i) ==
  IF i > Len(s) \/ CharAt(s, i) = sep THEN i ELSE IndexOf(s, sep, i + 1)

\* s.split(sep), sep one character
RECURSIVE SplitFrom(_, _, _)
SplitFrom(s, sep, i) ==
  LET j == IndexOf(s, sep, i)
  IN  IF j > Len(s) THEN <<SubSeq(s, i, Len(s))>>
      ELSE <<SubSeq(s, i, j - 1)>> \o SplitFrom(s, sep, j + 1)

Split(s, sep) == SplitFrom(s, sep, 1)

\* JavaScript truthiness of a string or undefined, and of a number
Truthy(v) == v # Undefined /\ v # ""

TruthyNum(n) == ~n.nan /\ n.val # 0

\* s.startsWith(pre)
StartsWith(s, pre) == Len(pre) <= Len(s) /\ SubSeq(s, 1, Len(pre)) = pre

\* the decimal digits of a natural number, as `${n}` formats it
DigitChar(d) == CharAt("0123456789", d + 1)

RECURSIVE ToDecimal(_)
ToDecimal(n) ==
  IF n < 10 THEN DigitChar(n) ELSE ToDecimal(n \div 10) \o DigitChar(n % 10)

\* seq[k] of a JavaScript array, 1-based here: undefined past its end
At(seq, k) == IF k <= Len(seq) THEN seq[k] ELSE Undefined

(***************************************************************************)
(* The regular expressions of the program.                                 *)
(***************************************************************************)
\* /\.(ts|js|tsx|jsx)$/.test(filename)
IsCodeFile(filename) ==
  \/ EndsWith(filename, ".ts")
  \/ EndsWith(filename, ".js")
  \/ EndsWith(filename, ".tsx")
  \/ EndsWith(filename, ".jsx")

\* /@@ -\d+,?\d* \+(\d+)/ tried at position i of s: where the captured group
\* starts and ends, [from |-> 0, to |-> 0] when the pattern does not match there
HunkMatchAt(s, i) ==
  LET no == [from |-> 0, to |-> 0]
      d1 == DigitsEnd(s, i + 4)
      c == IF d1 + 1 <= Len(s) /\ CharAt(s, d1 + 1) = "," THEN d1 + 2 ELSE d1 + 1
      d2 == DigitsEnd(s, c)
      d3 == DigitsEnd(s, d2 + 3)
  IN  IF i + 3 > Len(s) \/ SubSeq(s, i, i + 3) # "@@ -" THEN no
      ELSE IF d1 < i + 4 THEN no
      ELSE IF d2 + 2 > Len(s) \/ SubSeq(s, d2 + 1, d2 + 2) # " +" THEN no
      ELSE IF d3 < d2 + 3 THEN no
      ELSE [from |-> d2 + 3, to |-> d3]

\* patch.match(/@@ -\d+,?\d* \+(\d+)/): the captured group of the leftmost
\* match, Undefined when there is none
RECURSIVE HunkMatchFrom(_, _)
HunkMatchFrom(s, i) ==
  IF i > Len(s) THEN Undefined
  ELSE LET m == HunkMatchAt(s, i)
       IN  IF m.from > 0 THEN SubSeq(s, m.from, m.to) ELSE HunkMatchFrom(s, i + 1)

\* file.patch?.match(...): undefined when the patch is
PatchMatch(patch) ==
  IF patch = Undefined THEN Undefined ELSE HunkMatchFrom(patch, 1)

\* lineMatch ? parseInt(lineMatch[1]) : 1
StartLine(patch) ==
  LET lineMatch == PatchMatch(patch)
  IN  IF lineMatch # Undefined THEN ParseInt(lineMatch).val ELSE 1

(***************************************************************************)
(* Pure parts of the program.                                              *)
(***************************************************************************)
\* the limit of the fallback: comments.slice(0, 10)
FallbackLimit == 10
\* the least length a suggestion must exceed: suggestion.length > 50
MinSuggestionLength == 50

\* comments.slice(0, n)
Slice(seq, n) == SubSeq(seq, 1, IF Len(seq) < n THEN Len(seq) ELSE n)

\* IsReviewable without its test of the status
IsReviewableAnyStatus(file) == IsCodeFile(file.filename)

\* the filter of reviewPullRequest: a supported extension, and not removed
IsReviewable(file) == IsCodeFile(file.filename) /\ file.status # "removed"

FilterCodeFiles(files) == SelectSeq(files, IsReviewable)

\* the body of the comment of one lint message
LintBody(message) ==
  "**ESLint Error**: " \o message.message
     \o (IF Truthy(message.ruleId) THEN " (" \o message.ruleId \o ")" ELSE "")

\* MessageComments with the messages of a result taken last to first
RECURSIVE MessageCommentsReversed(_, _)
MessageCommentsReversed(result, k) ==
  IF k > Len(result.messages) THEN <<>>
  ELSE LET message == result.messages[k]
       IN  MessageCommentsReversed(result, k + 1)
             \o (IF message.severity = 2
                 THEN <<[path |-> result.filePath, line |-> message.line,
                         body |-> LintBody(message)]>>
                 ELSE <<>>)

\* MessageComments with the warnings commented too
RECURSIVE MessageCommentsAnySeverity(_, _)
MessageCommentsAnySeverity(result, k) ==
  IF k > Len(result.messages) THEN <<>>
  ELSE LET message == result.messages[k]
       IN  (IF message.severity >= 1
            THEN <<[path |-> result.filePath, line |-> message.line,
                    body |-> LintBody(message)]>>
            ELSE <<>>) \o MessageCommentsAnySeverity(result, k + 1)

\* the comments of the messages k.. of one result: errors only
RECURSIVE MessageComments(_, _)
MessageComments(result, k) ==
  IF k > Len(result.messages) THEN <<>>
  ELSE LET message == result.messages[k]
       IN  (IF message.severity = 2
            THEN <<[path |-> result.filePath, line |-> message.line,
                    body |-> LintBody(message)]>>
            ELSE <<>>) \o MessageComments(result, k + 1)

\* the first loop of generateAIReview over the results r..
RECURSIVE LintComments(_, _)
LintComments(results, r) ==
  IF r > Len(results) THEN <<>>
  ELSE MessageComments(results[r], 1) \o LintComments(results, r + 1)

\* the marker getAISuggestions puts before a suggestion (its emoji left out)
AIMarker == "**AI Code Review**\n\n"

\* response.choices[0]?.message?.content?.trim()
SuggestionOf(response) ==
  IF Len(response.choices) = 0 THEN Undefined
  ELSE IF response.choices[1].content = Undefined THEN Undefined
  ELSE Trim(response.choices[1].content)

\* KeepsSuggestion with a suggestion of the least length kept
KeepsSuggestionOfMinLength(suggestion) ==
  /\ Truthy(suggestion)
  /\ ~Includes(ToLowerCase(suggestion), "looks good")
  /\ Len(suggestion) >= MinSuggestionLength

\* the test of getAISuggestions on the trimmed suggestion
KeepsSuggestion(suggestion) ==
  /\ Truthy(suggestion)
  /\ ~Includes(ToLowerCase(suggestion), "looks good")
  /\ Len(suggestion) > MinSuggestionLength

\* what getAISuggestions returns for the outcome of the completion call
\* (a response, or ok = FALSE when the call throws): a body, or Undefined
GetAISuggestions(outcome) ==
  IF ~outcome.ok THEN Undefined
  ELSE LET suggestion == SuggestionOf(outcome)
       IN  IF KeepsSuggestion(suggestion) THEN AIMarker \o suggestion
           ELSE Undefined

\* the comment generateAIReview pushes for a file and its suggestion
AIComment(file, aiSuggestions) ==
  [path |-> file.filename, line |-> StartLine(file.patch), body |-> aiSuggestions]

\* the body of the batched review
ReviewBody(comments) ==
  "**Automated Code Review Results**\n\nFound " \o ToDecimal(Len(comments))
     \o " items for review. Please check the inline comments below."

\* the body of an individual comment of the fallback
FallbackBody(comment) ==
  "**" \o comment.path \o ":" \o ToDecimal(comment.line) \o "**\n\n" \o comment.body

NoIssuesBody ==
  "**AI Code Review Complete**\n\nNo major issues found! The code looks good to me."

\* path.resolve(cwd, filePath): ESLint reports every result under the
\* absolute path of its file
Cwd == "/work"

Resolve(filePath) ==
  IF StartsWith(filePath, "/") THEN filePath ELSE Cwd \o "/" \o filePath

(***************************************************************************)
(* The inputs of a run: the environment, the change set of the pull        *)
(* request, the working tree, and what the three services answer.          *)
(***************************************************************************)
Tokens == {Undefined, "", "ghp_token"}

ApiKeys == {Undefined, "sk-key"}

Repositories == {Undefined, "octo/repo", "octo", "octo/"}

PrNumbers == {Undefined, "7", "0", "abc"}

Environments ==
  [GITHUB_TOKEN : Tokens, OPENAI_API_KEY : ApiKeys,
   GITHUB_REPOSITORY : Repositories, GITHUB_PR_NUMBER : PrNumbers]

\* the files a pull request may touch, in the order the host lists them
FilePool ==
  << [filename |-> "README.md", status |-> "modified",
      patch |-> "@@ -1,2 +1,3 @@\n # Title\n+text"],
     [filename |-> "b.js", status |-> "added", patch |-> Undefined],
     [filename |-> "c.tsx", status |-> "modified",
      patch |-> "@@ -1,3 +0,0 @@\n-a\n-b\n-c"],
     [filename |-> "d.jsx", status |-> "renamed",
      patch |-> "@@ -3 +4 @@\n-x\n+y"],
     [filename |-> "old.ts", status |-> "removed",
      patch |-> "@@ -1,2 +0,0 @@\n-x\n-y"],
     [filename |-> "src/a.ts", status |-> "modified",
      patch |-> "@@ -10,5 +20,6 @@ class A {\n   m() {\n+    x();"] >>

\* the subsequence of FilePool at the positions in picks
RECURSIVE PickFrom(_, _)
PickFrom(picks, k) ==
  IF k > Len(FilePool) THEN <<>>
  ELSE (IF k \in picks THEN <<FilePool[k]>> ELSE <<>>) \o PickFrom(picks, k + 1)

\* the change sets: at most MaxFiles files of the pool
ChangeSets ==
  { PickFrom(picks, 1) :
      picks \in { q \in SUBSET (1..Len(FilePool)) : Cardinality(q) <= MaxFiles } }

\* the working trees: which files exist on local disk
WorkingTrees ==
  { {"b.js", "c.tsx", "d.jsx", "src/a.ts", "README.md"},
    {"c.tsx", "src/a.ts"},
    {} }

\* the messages the analyzer may report for one file
BigMessages ==
  [k \in 1..BigLint |->
     [ruleId |-> "no-unused-vars", severity |-> 2, message |-> "Unused variable.",
      line |-> k, column |-> 1]]

MessageLists ==
  { << [ruleId |-> "no-console", severity |-> 1, message |-> "Unexpected console.",
        line |-> 5, column |-> 3],
       [ruleId |-> Undefined, severity |-> 2, message |-> "Parsing error: ) expected.",
        line |-> 20, column |-> 4],
       [ruleId |-> "eqeqeq", severity |-> 2, message |-> "Expected ===.",
        line |-> 4, column |-> 7] >>,
    BigMessages }

\* s repeated n times
RECURSIVE Repeat(_, _)
Repeat(s, n) == IF n = 0 THEN "" ELSE s \o Repeat(s, n - 1)

\* what the completion service may answer: the call throws, or a response
\* with no choice, with a choice without content, or with a text
CompletionOutcomes ==
  { [ok |-> FALSE, choices |-> << >>],
    [ok |-> TRUE, choices |-> << >>],
    [ok |-> TRUE, choices |-> << [content |-> Undefined] >>],
    [ok |-> TRUE, choices |-> << [content |-> "Looks good!"] >>],
    [ok |-> TRUE, choices |-> << [content |-> "  " \o Repeat("rename it;", 5) \o "\n"] >>],
    [ok |-> TRUE, choices |-> << [content |-> Repeat("rename it;", 5) \o "!"],
                                 [content |-> "second choice"] >>],
    [ok |-> TRUE, choices |-> << [content |-> Repeat("Use const there;", 5)] >>],
    [ok |-> TRUE,
     choices |-> << [content |-> "Overall this LOOKS GOOD, " \o Repeat("ship it now ", 5)] >>] }

(***************************************************************************)
(* The state of a run.                                                     *)
(***************************************************************************)
VARIABLES
  env,            \* process.env
  disk,           \* the filenames that exist in the working tree
  pc,             \* where the run is
  context,        \* owner, repo, prNumber of reviewPullRequest
  changedFiles,   \* what getChangedFiles returned
  codeFiles,      \* the filtered change set
  eslintResults,  \* results of runESLint
  index,          \* the position of the loop that is running
  outcome,        \* getAISuggestions: the outcome of its completion call
  reviewComments, \* reviewComments of generateAIReview, comments of postReviewComments
  calls,          \* the calls made to the host, the analyzer and the completion service
  failed,         \* the outcome of the latest call of postReviewComments
  error,          \* the error main catches
  exitCode        \* the exit code of the process

vars ==
  << env, disk, pc, context, changedFiles, codeFiles, eslintResults, index,
     outcome, reviewComments, calls, failed, error, exitCode >>

NoContext == [owner |-> Undefined, repo |-> Undefined, prNumber |-> NaN]

\* no completion call has been made for the file at hand
NoOutcome == [ok |-> FALSE, choices |-> << [content |-> "no call"] >>]

\* the process has not exited
Running == -1

Init ==
  /\ env \in Environments
  /\ disk \in WorkingTrees
  /\ pc = "main"
  /\ context = NoContext
  /\ changedFiles = << >>
  /\ codeFiles = << >>
  /\ eslintResults = << >>
  /\ index = 0
  /\ outcome = NoOutcome
  /\ reviewComments = << >>
  /\ calls = << >>
  /\ failed = FALSE
  /\ error = Undefined
  /\ exitCode = Running

\* an error reaches main (through the catch of reviewPullRequest, which
\* throws it again): main logs it and exits with code 1
Throw(e) == pc' = "exit" /\ error' = e /\ exitCode' = 1

\* main returns: the process ends with code 0
Return == pc' = "exit" /\ exitCode' = 0 /\ UNCHANGED error

\* the constructor's test of the two credentials
HasCredentials(e) == Truthy(e.GITHUB_TOKEN) /\ Truthy(e.OPENAI_API_KEY)

\* main: new AICodeReviewBot()
Construct ==
  /\ pc = "main"
  /\ IF HasCredentials(env)
     THEN pc' = "review" /\ UNCHANGED <<error, exitCode>>
     ELSE Throw("Missing required environment variables: GITHUB_TOKEN and OPENAI_API_KEY")
  /\ UNCHANGED << env, disk, context, changedFiles, codeFiles, eslintResults, index,
                  outcome, reviewComments, calls, failed >>

\* process.env.GITHUB_REPOSITORY?.split('/')[k - 1]
RepositoryPart(e, k) ==
  IF e.GITHUB_REPOSITORY = Undefined THEN Undefined
  ELSE At(Split(e.GITHUB_REPOSITORY, "/"), k)

\* parseInt(process.env.GITHUB_PR_NUMBER || '0')
PrNumberOf(e) ==
  ParseInt(IF Truthy(e.GITHUB_PR_NUMBER) THEN e.GITHUB_PR_NUMBER ELSE "0")

ReadContext(e) ==
  [owner |-> RepositoryPart(e, 1), repo |-> RepositoryPart(e, 2),
   prNumber |-> PrNumberOf(e)]

\* HasContext without its test of the pull request number
HasContextUnnumbered(c) == Truthy(c.owner) /\ Truthy(c.repo)

\* the test of reviewPullRequest on the context
HasContext(c) == Truthy(c.owner) /\ Truthy(c.repo) /\ TruthyNum(c.prNumber)

\* reviewPullRequest, to its first await
StartReview ==
  /\ pc = "review"
  /\ context' = ReadContext(env)
  /\ IF HasContext(context')
     THEN pc' = "fetch" /\ UNCHANGED <<error, exitCode>>
     ELSE Throw("Missing GitHub context variables")
  /\ UNCHANGED << env, disk, changedFiles, codeFiles, eslintResults, index, outcome,
                  reviewComments, calls, failed >>

\* getChangedFiles: pulls.listFiles answers
GetChangedFiles ==
  /\ pc = "fetch"
  /\ calls' = Append(calls, [api |-> "pulls.listFiles", arg |-> context])
  /\ \E files \in ChangeSets : changedFiles' = files
  /\ pc' = "filter"
  /\ UNCHANGED << env, disk, context, codeFiles, eslintResults, index, outcome,
                  reviewComments, failed, error, exitCode >>

\* getChangedFiles: pulls.listFiles throws
GetChangedFilesFails ==
  /\ pc = "fetch"
  /\ calls' = Append(calls, [api |-> "pulls.listFiles", arg |-> context])
  /\ Throw("HttpError: pulls.listFiles")
  /\ UNCHANGED << env, disk, context, changedFiles, codeFiles, eslintResults, index,
                  outcome, reviewComments, failed >>

\* reviewPullRequest: the filter, and the early return on an empty result
FilterFiles ==
  /\ pc = "filter"
  /\ codeFiles' = FilterCodeFiles(changedFiles)
  /\ IF Len(codeFiles') = 0
     THEN Return /\ UNCHANGED index
     ELSE pc' = "lint" /\ index' = 1 /\ UNCHANGED <<error, exitCode>>
  /\ UNCHANGED << env, disk, context, changedFiles, eslintResults, outcome,
                  reviewComments, calls, failed >>

\* runESLint, one turn of its loop: a file that is not on disk is passed
\* over; eslint.lintFiles, called on one that is, returns the results of the
\* file, each under the absolute path of the file
RunESLintFile ==
  /\ pc = "lint"
  /\ index <= Len(codeFiles)
  /\ LET filePath == codeFiles[index].filename
     IN  IF filePath \in disk
         THEN /\ calls' = Append(calls, [api |-> "eslint.lintFiles", arg |-> filePath])
              /\ \E messages \in MessageLists :
                   eslintResults' =
                     Append(eslintResults,
                            [filePath |-> Resolve(filePath), messages |-> messages])
         ELSE UNCHANGED <<calls, eslintResults>>
  /\ index' = index + 1
  /\ UNCHANGED << env, disk, pc, context, changedFiles, codeFiles, outcome,
                  reviewComments, failed, error, exitCode >>

\* runESLint, one turn of its loop: eslint.lintFiles throws, which is logged
RunESLintFileFails ==
  /\ pc = "lint"
  /\ index <= Len(codeFiles)
  /\ codeFiles[index].filename \in disk
  /\ calls' = Append(calls, [api |-> "eslint.lintFiles", arg |-> codeFiles[index].filename])
  /\ index' = index + 1
  /\ UNCHANGED << env, disk, pc, context, changedFiles, codeFiles, eslintResults,
                  outcome, reviewComments, failed, error, exitCode >>

\* runESLint returns, and generateAIReview turns the results into comments
AddESLintComments ==
  /\ pc = "lint"
  /\ index > Len(codeFiles)
  /\ reviewComments' = LintComments(eslintResults, 1)
  /\ pc' = "ai"
  /\ index' = 1
  /\ UNCHANGED << env, disk, context, changedFiles, codeFiles, eslintResults, outcome,
                  calls, failed, error, exitCode >>

\* generateAIReview, one turn of its second loop, for a file readFileSync
\* reads: the completion service is asked, and its suggestion, if any, pushed
ReviewFile ==
  /\ pc = "ai"
  /\ index <= Len(codeFiles)
  /\ LET file == codeFiles[index]
     IN  /\ IsCodeFile(file.filename)
         /\ file.filename \in disk
         /\ calls' = Append(calls, [api |-> "chat.completions.create",
                                    arg |-> file.filename])
         /\ \E o \in CompletionOutcomes :
              /\ outcome' = o
              /\ LET aiSuggestions == GetAISuggestions(o)
                 IN  reviewComments' =
                       IF Truthy(aiSuggestions)
                       THEN Append(reviewComments, AIComment(file, aiSuggestions))
                       ELSE reviewComments
  /\ index' = index + 1
  /\ UNCHANGED << env, disk, pc, context, changedFiles, codeFiles, eslintResults,
                  failed, error, exitCode >>

\* generateAIReview, one turn of its second loop, for a file it passes over:
\* one without a supported extension, or one readFileSync throws on
SkipFile ==
  /\ pc = "ai"
  /\ index <= Len(codeFiles)
  /\ LET file == codeFiles[index]
     IN  ~IsCodeFile(file.filename) \/ file.filename \notin disk
  /\ outcome' = NoOutcome
  /\ index' = index + 1
  /\ UNCHANGED << env, disk, pc, context, changedFiles, codeFiles, eslintResults,
                  reviewComments, calls, failed, error, exitCode >>

\* generateAIReview returns
ReturnComments ==
  /\ pc = "ai"
  /\ index > Len(codeFiles)
  /\ outcome' = NoOutcome
  /\ pc' = "post"
  /\ index' = 0
  /\ UNCHANGED << env, disk, context, changedFiles, codeFiles, eslintResults,
                  reviewComments, calls, failed, error, exitCode >>

\* the call of issues.createComment with a body
CreateComment(body) ==
  [api |-> "issues.createComment", arg |-> [issue_number |-> context.prNumber.val,
                                            body |-> body]]

\* CreateReview with the comments cut as the fallback cuts them
CreateReviewCut(comments) ==
  [api |-> "pulls.createReview",
   arg |-> [pull_number |-> context.prNumber.val, event |-> "COMMENT",
            body |-> ReviewBody(comments), comments |-> Slice(comments, FallbackLimit)]]

\* the call of pulls.createReview with the comments
CreateReview(comments) ==
  [api |-> "pulls.createReview",
   arg |-> [pull_number |-> context.prNumber.val, event |-> "COMMENT",
            body |-> ReviewBody(comments), comments |-> comments]]

\* postReviewComments on no comment: the general comment is posted
PostNoIssues ==
  /\ pc = "post"
  /\ Len(reviewComments) = 0
  /\ calls' = Append(calls, CreateComment(NoIssuesBody))
  /\ failed' = FALSE
  /\ Return
  /\ UNCHANGED << env, disk, context, changedFiles, codeFiles, eslintResults, index,
                  outcome, reviewComments >>

\* postReviewComments on no comment: issues.createComment throws, outside
\* every try of postReviewComments
PostNoIssuesFails ==
  /\ pc = "post"
  /\ Len(reviewComments) = 0
  /\ calls' = Append(calls, CreateComment(NoIssuesBody))
  /\ failed' = TRUE
  /\ Throw("HttpError: issues.createComment")
  /\ UNCHANGED << env, disk, context, changedFiles, codeFiles, eslintResults, index,
                  outcome, reviewComments >>

\* postReviewComments: the batched review is created
PostReview ==
  /\ pc = "post"
  /\ Len(reviewComments) # 0
  /\ calls' = Append(calls, CreateReview(reviewComments))
  /\ failed' = FALSE
  /\ Return
  /\ UNCHANGED << env, disk, context, changedFiles, codeFiles, eslintResults, index,
                  outcome, reviewComments >>

\* postReviewComments: pulls.createReview throws, and the fallback starts
PostReviewFails ==
  /\ pc = "post"
  /\ Len(reviewComments) # 0
  /\ calls' = Append(calls, CreateReview(reviewComments))
  /\ failed' = TRUE
  /\ pc' = "fallback"
  /\ index' = 1
  /\ UNCHANGED << env, disk, context, changedFiles, codeFiles, eslintResults, outcome,
                  reviewComments, error, exitCode >>

\* FallbackComments without the limit
FallbackCommentsUncut(comments) == comments

\* the comments the fallback goes through
FallbackComments(comments) == Slice(comments, FallbackLimit)

\* the fallback, one turn of its loop: the comment is posted, or
\* issues.createComment throws, which is logged
PostIndividualComment ==
  /\ pc = "fallback"
  /\ index <= Len(FallbackComments(reviewComments))
  /\ calls' = Append(calls,
                     CreateComment(FallbackBody(FallbackComments(reviewComments)[index])))
  /\ failed' \in BOOLEAN
  /\ index' = index + 1
  /\ UNCHANGED << env, disk, pc, context, changedFiles, codeFiles, eslintResults,
                  outcome, reviewComments, error, exitCode >>

\* the loop of the fallback ends, and postReviewComments returns
FinishFallback ==
  /\ pc = "fallback"
  /\ index > Len(FallbackComments(reviewComments))
  /\ Return
  /\ UNCHANGED << env, disk, context, changedFiles, codeFiles, eslintResults, index,
                  outcome, reviewComments, calls, failed >>

Next ==
  \/ Construct
  \/ StartReview
  \/ GetChangedFiles
  \/ GetChangedFilesFails
  \/ FilterFiles
  \/ RunESLintFile
  \/ RunESLintFileFails
  \/ AddESLintComments
  \/ ReviewFile
  \/ SkipFile
  \/ ReturnComments
  \/ PostNoIssues
  \/ PostNoIssuesFails
  \/ PostReview
  \/ PostReviewFails
  \/ PostIndividualComment
  \/ FinishFallback

Spec == Init /\ [][Next]_vars

(***************************************************************************)
(* Vocabulary of the properties.                                           *)
(***************************************************************************)
IsLintComment(c) == StartsWith(c.body, "**ESLint Error**: ")

IsAIComment(c) == StartsWith(c.body, AIMarker)

IsReviewCall(call) == call.api = "pulls.createReview"

IsCommentCall(call) == call.api = "issues.createComment"

IsPostingCall(call) == IsReviewCall(call) \/ IsCommentCall(call)

ReviewCalls == SelectSeq(calls, IsReviewCall)

CommentCalls == SelectSeq(calls, IsCommentCall)

LintPart == SelectSeq(reviewComments, IsLintComment)

AIPart == SelectSeq(reviewComments, IsAIComment)

\* the postReviewComments call has been entered
Publishing ==
  \/ pc \in {"post", "fallback"}
  \/ pc = "exit" /\ \E i \in DOMAIN calls : IsPostingCall(calls[i])

\* the findings of the analyzer output from result r, message k on, in order
RECURSIVE FindingsFrom(_, _)
FindingsFrom(r, k) ==
  IF r > Len(eslintResults) THEN << >>
  ELSE IF k > Len(eslintResults[r].messages) THEN FindingsFrom(r + 1, 1)
  ELSE << [filePath |-> eslintResults[r].filePath,
           severity |-> eslintResults[r].messages[k].severity,
           message |-> eslintResults[r].messages[k].message,
           line |-> eslintResults[r].messages[k].line] >> \o FindingsFrom(r, k + 1)

Findings == FindingsFrom(1, 1)

IsErrorFinding(f) == f.severity = 2

IsWarningFinding(f) == f.severity = 1

ErrorFindings == SelectSeq(Findings, IsErrorFinding)

\* the comments are assembled: generateAIReview has run its first loop
LintAssembled == pc \in {"ai", "post", "fallback"} \/ (pc = "exit" /\ Publishing)

\* the position of a filename in the filtered change set (0 if it has none)
PositionOf(filename) ==
  IF \E i \in DOMAIN codeFiles : codeFiles[i].filename = filename
  THEN CHOOSE i \in DOMAIN codeFiles : codeFiles[i].filename = filename
  ELSE 0

(***************************************************************************)
(* C1: every comment handed to the publisher, lint-error comment or AI     *)
(* comment, has the filename of a file of the filtered change set as its   *)
(* path.  The lint-error comments carry the analyzer's absolute filePath.  *)
(***************************************************************************)
C1_PathsInChangeSet ==
  \A i \in DOMAIN reviewComments :
    \E j \in DOMAIN codeFiles : reviewComments[i].path = codeFiles[j].filename

(***************************************************************************)
(* C2: no failure of a posting call raises past the publisher: once the    *)
(* publisher has been entered, the run exits with code 0.  The general     *)
(* comment on an empty list is posted outside every try.                   *)
(***************************************************************************)
C2_PostingFailureNeverFatal ==
  (pc = "exit" /\ Publishing) => exitCode = 0

Min(a, b) == IF a < b THEN a ELSE b

\* the batched call has failed: the fallback runs, or has run (the batched
\* call is then followed by the individual posts)
ReviewFailed ==
  \/ pc = "fallback"
  \/ pc = "exit" /\ \E i \in DOMAIN calls : IsReviewCall(calls[i]) /\ i < Len(calls)

\* the body an individual post of the k-th assembled comment carries
IndividualBody(k) ==
  "**" \o reviewComments[k].path \o ":" \o ToDecimal(reviewComments[k].line)
     \o "**\n\n" \o reviewComments[k].body

(***************************************************************************)
(* C3: when the batched review call fails on a list of n comments, the     *)
(* individual posts attempted are those of the first min(n, 10) comments,  *)
(* in list order, one each: while the fallback runs, the k-th attempt made *)
(* is the post of the k-th comment and at most min(n, 10) are made; after  *)
(* a failed attempt the next one is still made; when the run has exited,   *)
(* exactly min(n, 10) have been made.                                      *)
(***************************************************************************)
C3_FallbackAttempts ==
  ReviewFailed =>
    LET n == Len(reviewComments)
        posts == CommentCalls
    IN  /\ Len(posts) <= Min(n, 10)
        /\ \A k \in DOMAIN posts : posts[k].arg.body = IndividualBody(k)
        /\ pc = "fallback" => Len(posts) = index - 1
        /\ (pc = "fallback" /\ Len(posts) < Min(n, 10)) => ENABLED PostIndividualComment
        /\ pc = "exit" => Len(posts) = Min(n, 10) /\ exitCode = 0

\* the batched call failed on more than 10 comments and ten posts have been
\* attempted, the tenth of which failed
C3_Witness ==
  /\ pc = "fallback"
  /\ Len(reviewComments) > 10
  /\ Len(CommentCalls) = 10
  /\ failed

\* the batched call failed on 15 comments or more and the third individual
\* post has just failed
C3_WitnessFailure ==
  /\ pc = "fallback"
  /\ failed
  /\ index = 4
  /\ Len(reviewComments) >= 15

(***************************************************************************)
(* C4: on an empty list the publisher makes one general issue comment and  *)
(* no batched review call; on a non-empty list it makes one batched review *)
(* call, which carries the assembled list as it is, and an individual      *)
(* issue comment is made only in the fallback, which only a failed batched *)
(* call starts.                                                            *)
(***************************************************************************)
C4_PublisherCalls ==
  /\ [](Publishing =>
         /\ Len(ReviewCalls) <= 1
         /\ Len(reviewComments) = 0 =>
              /\ Len(ReviewCalls) = 0
              /\ Len(CommentCalls) <= 1
              /\ pc = "exit" =>
                   Len(CommentCalls) = 1 /\ CommentCalls[1].arg.body = NoIssuesBody
         /\ Len(reviewComments) # 0 =>
              /\ pc = "post" => Len(ReviewCalls) = 0 /\ Len(CommentCalls) = 0
              /\ pc # "post" =>
                   /\ Len(ReviewCalls) = 1
                   /\ ReviewCalls[1].arg.comments = reviewComments
                   /\ ReviewCalls[1].arg.event = "COMMENT"
                   /\ IsReviewCall(calls[Len(calls) - Len(CommentCalls)]))
  /\ [][(Len(reviewComments) # 0 /\ Len(calls') > Len(calls)
           /\ IsCommentCall(calls'[Len(calls')])) => pc = "fallback"]_vars
  /\ [][(pc # "fallback" /\ pc' = "fallback") =>
          (failed' /\ IsReviewCall(calls'[Len(calls')]))]_vars
  /\ [][(Publishing /\ ~failed' /\ Len(calls') > Len(calls)
           /\ IsReviewCall(calls'[Len(calls')])) => pc' = "exit"]_vars

\* a batched call on a non-empty list has succeeded and the run has ended
C4_Witness ==
  /\ pc = "exit"
  /\ Len(reviewComments) >= 2
  /\ Len(ReviewCalls) = 1
  /\ Len(CommentCalls) = 0
  /\ ~failed

\* a credential is missing from the environment
CredentialsMissing ==
  \/ env.GITHUB_TOKEN \in {Undefined, ""}
  \/ env.OPENAI_API_KEY \in {Undefined, ""}

\* the environment names no owner, no repository or no pull request
ContextMissing ==
  \/ env.GITHUB_REPOSITORY \in {Undefined, "", "octo", "octo/"}
  \/ env.GITHUB_PR_NUMBER \in {Undefined, "", "0", "abc"}

FetchFailed == error = "HttpError: pulls.listFiles"

(***************************************************************************)
(* C5: with a credential or a context variable missing the run makes no    *)
(* call at all and gets no further than reviewPullRequest's test; with the *)
(* change-set fetch failing the only call made is the fetch.  Both runs    *)
(* exit with a non-zero code.                                              *)
(***************************************************************************)
C5_FatalBeforeCalls ==
  /\ (CredentialsMissing \/ ContextMissing) =>
       /\ calls = << >>
       /\ pc \in {"main", "review", "exit"}
       /\ pc = "exit" => exitCode = 1
       /\ (CredentialsMissing /\ pc # "main") => pc = "exit"
  /\ FetchFailed =>
       /\ Len(calls) = 1
       /\ calls[1].api = "pulls.listFiles"
       /\ pc = "exit"
       /\ exitCode = 1

\* both credentials set, no pull request number: the run has exited
C5_Witness ==
  /\ pc = "exit"
  /\ ~CredentialsMissing
  /\ env.GITHUB_REPOSITORY = "octo/repo"
  /\ env.GITHUB_PR_NUMBER = Undefined
  /\ calls = << >>
  /\ exitCode = 1

\* the change-set fetch has failed and the run has exited
C5_WitnessFetch == pc = "exit" /\ FetchFailed /\ exitCode = 1

\* a file the run is to review: a supported extension and not removed
Supported(filename) ==
  \E ext \in {".ts", ".js", ".tsx", ".jsx"} :
    /\ Len(filename) >= Len(ext)
    /\ SubSeq(filename, Len(filename) - Len(ext) + 1, Len(filename)) = ext

NothingToReview ==
  \A i \in DOMAIN changedFiles :
    ~(Supported(changedFiles[i].filename) /\ changedFiles[i].status # "removed")

(***************************************************************************)
(* C6: when the fetched change set has no file with a supported extension  *)
(* and a status other than removed, the run ends at the filter: its only   *)
(* call is the fetch (no analyzer, completion or posting call) and it      *)
(* exits with code 0.                                                      *)
(***************************************************************************)
C6_EmptyFilteredSet ==
  (pc \notin {"main", "review", "fetch", "filter"} /\ error = Undefined
     /\ NothingToReview) =>
    /\ pc = "exit"
    /\ exitCode = 0
    /\ Len(calls) = 1
    /\ calls[1].api = "pulls.listFiles"
    /\ reviewComments = << >>

\* a change set of a removed source file and a file of another kind
C6_Witness ==
  /\ pc = "exit"
  /\ exitCode = 0
  /\ Len(changedFiles) = 2
  /\ \E i \in DOMAIN changedFiles : changedFiles[i].status = "removed"
  /\ NothingToReview

\* the number of suggestions requested for a filename
Requests(filename) ==
  Cardinality({ i \in DOMAIN calls :
                  calls[i].api = "chat.completions.create" /\ calls[i].arg = filename })

\* the number of AI comments assembled for a filename
AIComments(filename) ==
  Cardinality({ i \in DOMAIN reviewComments :
                  IsAIComment(reviewComments[i]) /\ reviewComments[i].path = filename })

\* the answer of the completion service is one to comment with: a response
\* whose first choice has a content of trimmed length over 50 that does
\* not say "looks good" in any case
Commentable(o) ==
  /\ o.ok
  /\ Len(o.choices) >= 1
  /\ o.choices[1].content # Undefined
  /\ Len(Trim(o.choices[1].content)) > 50
  /\ ~Includes(ToLowerCase(Trim(o.choices[1].content)), "looks good")

\* the second loop of generateAIReview has just gone through a file
JustReviewed == pc = "ai" /\ index > 1

(***************************************************************************)
(* C7, as claimed: for every file of the filtered change set, on disk or   *)
(* not, a suggestion is requested once, and one AI comment is assembled    *)
(* for it if the answer is one to comment with, none otherwise.            *)
(***************************************************************************)
C7_EveryFileRequestedOnce ==
  /\ JustReviewed =>
       LET file == codeFiles[index - 1]
       IN  /\ Requests(file.filename) = 1
           /\ AIComments(file.filename) = IF Commentable(outcome) THEN 1 ELSE 0
  /\ pc = "post" =>
       \A i \in DOMAIN codeFiles : Requests(codeFiles[i].filename) = 1

(***************************************************************************)
(* C7, amended: for every file of the filtered change set that is on local *)
(* disk a suggestion is requested once, and one AI comment is assembled    *)
(* for it if the answer is one to comment with, none otherwise; for a file *)
(* that is not on disk no suggestion is requested and no AI comment is     *)
(* assembled.  Neither a failing completion call nor a missing file stops  *)
(* the loop: when it ends, every file has been gone through.               *)
(***************************************************************************)
C7_FilesOnDiskRequestedOnce ==
  /\ JustReviewed =>
       LET file == codeFiles[index - 1]
       IN  IF file.filename \in disk
           THEN /\ Requests(file.filename) = 1
                /\ AIComments(file.filename) = IF Commentable(outcome) THEN 1 ELSE 0
                /\ Commentable(outcome) =>
                     reviewComments[Len(reviewComments)].body
                       = AIMarker \o Trim(outcome.choices[1].content)
           ELSE Requests(file.filename) = 0 /\ AIComments(file.filename) = 0
  /\ pc = "ai" =>
       \A i \in DOMAIN codeFiles :
         i >= index => Requests(codeFiles[i].filename) = 0
                         /\ AIComments(codeFiles[i].filename) = 0
  /\ pc \in {"post", "fallback"} =>
       \A i \in DOMAIN codeFiles :
         /\ Requests(codeFiles[i].filename)
              = IF codeFiles[i].filename \in disk THEN 1 ELSE 0
         /\ AIComments(codeFiles[i].filename) <= Requests(codeFiles[i].filename)

\* the completion call of the first file threw, and the second file got a
\* comment from a text of 51 characters
C7_Witness ==
  /\ JustReviewed
  /\ index = 3
  /\ Requests(codeFiles[1].filename) = 1
  /\ AIComments(codeFiles[1].filename) = 0
  /\ Commentable(outcome)
  /\ Len(Trim(outcome.choices[1].content)) = 51
  /\ AIComments(codeFiles[2].filename) = 1

\* a file that cannot be read from disk was passed over, and the next file got a comment
C7_WitnessNotOnDisk ==
  /\ JustReviewed
  /\ index = 3
  /\ codeFiles[1].filename \notin disk
  /\ AIComments(codeFiles[2].filename) = 1

\* the file of the change set a result of the analyzer is about
FileOfResult(filePath) ==
  { i \in DOMAIN codeFiles :
      filePath \in {codeFiles[i].filename, Cwd \o "/" \o codeFiles[i].filename} }

(***************************************************************************)
(* C8: in the assembled list every lint-error comment precedes every AI    *)
(* comment; the lint-error comments follow the order of their findings in  *)
(* the analyzer output; the AI comments follow the order of their files in *)
(* the filtered change set; nothing is merged: each error finding and each *)
(* commented file has a comment of its own, also when both anchor at the   *)
(* same line of one file.                                                  *)
(***************************************************************************)
C8_AssemblyOrder ==
  LintAssembled =>
    LET lint == LintPart
        ai == AIPart
        errors == ErrorFindings
    IN  /\ reviewComments = lint \o ai
        /\ Len(lint) = Len(errors)
        /\ \A k \in DOMAIN lint :
             /\ lint[k].path = errors[k].filePath
             /\ lint[k].line = errors[k].line
             /\ StartsWith(lint[k].body, "**ESLint Error**: " \o errors[k].message)
        /\ \A i \in DOMAIN ai : PositionOf(ai[i].path) >= 1
        /\ \A i \in 1..(Len(ai) - 1) :
             PositionOf(ai[i].path) < PositionOf(ai[i + 1].path)

\* errors reported out of line order for a file, followed by the AI comments
\* of two files, the first of which anchors at the line of one of the errors
C8_Witness ==
  /\ pc = "post"
  /\ Len(AIPart) = 2
  /\ \E i, j \in DOMAIN LintPart : i < j /\ LintPart[i].line > LintPart[j].line
  /\ \E i \in DOMAIN LintPart :
       /\ FileOfResult(LintPart[i].path) = {PositionOf(AIPart[1].path)}
       /\ LintPart[i].line = AIPart[1].line

(***************************************************************************)
(* C9: the assembled list has one lint-error comment for each finding of   *)
(* severity 2, anchored at the line of the finding, and none for a finding *)
(* of severity 1: as many lint-error comments as error findings.           *)
(***************************************************************************)
C9_ErrorsOnly ==
  LintAssembled =>
    LET lint == LintPart
        findings == Findings
    IN  /\ Len(lint) = Len(SelectSeq(findings, IsErrorFinding))
        /\ \A i \in DOMAIN findings :
             LET f == findings[i]
                 about == { k \in DOMAIN lint :
                              /\ lint[k].path = f.filePath
                              /\ lint[k].line = f.line
                              /\ StartsWith(lint[k].body, "**ESLint Error**: " \o f.message) }
             IN  Cardinality(about) = IF f.severity = 2 THEN 1 ELSE 0

\* findings of both severities, and fewer comments than findings
C9_Witness ==
  /\ pc = "ai"
  /\ Len(SelectSeq(Findings, IsWarningFinding)) >= 2
  /\ Len(ErrorFindings) >= 2
  /\ Len(reviewComments) = Len(ErrorFindings)

(***************************************************************************)
(* C10: every comment of the assembled list has a line of 1 or more: an AI *)
(* comment has the new-file start line of the first hunk header of the     *)
(* patch of its file, 1 without a patch or a header.  A patch that empties *)
(* a file has the header "@@ -1,3 +0,0 @@", and its comment the line 0.    *)
(***************************************************************************)
C10_LinesAtLeastOne ==
  \A i \in DOMAIN reviewComments : reviewComments[i].line >= 1

====
